---- MODULE Spec2Model ----
(***************************************************************************)
(* A model of candypi: the Fedimint wallet wrapper (src/src/fedimint.rs)   *)
(* with its builder, and the dispenser's main loop (src/src/main.rs).      *)
(*                                                                         *)
(* The wallet backend (fedimint client: gateway lookup, invoice creation,  *)
(* operation log, update streams) is the environment: every answer it can  *)
(* give at a call site is a nondeterministic choice of the action that     *)
(* models the call.                                                        *)
(***************************************************************************)
EXTENDS Naturals, Sequences, FiniteSets

\* ------------------------------------------------------------------ bounds

\* The most updates the backend emits on one subscription before it closes it.
MaxStreamLen == 3

\* The most operation records the log holds before the program starts.
MaxStored == 1

\* The most input lines stdin delivers before it ends or fails.
MaxLines == 2

\* The most calls of FedimintBuilder::build on one database.
MaxBuilds == 3

\* ------------------------------------------------------------- value sets

\* Callers of the wallet (async tasks).
Tasks == {"t1", "t2"}

\* A payment hash (sha256::Hash), shortened to two bytes of one bit each.
HashBytes == {0, 1}
Hashes == HashBytes \X HashBytes

Amounts == {0, 1, 42}
Descriptions == {"candy", "too long"}
Gateways == {"gw1", "gw2"}

\* The operation log's records: the module kind and the metadata variant.
Kinds == {"ln", "mint"}
Variants == {"Receive", "Pay", "Claim"}
NoOperation == [kind |-> "none", variant |-> "none"]
Operations == [kind : Kinds, variant : Variants]

\* LnReceiveState: the two states the code matches, and the ones it skips.
Reasons == {"expired", "refunded"}
Transient == {[state |-> "WaitingForPayment", reason |-> ""]}
Claimed == [state |-> "Claimed", reason |-> ""]
Canceled(reason) == [state |-> "Canceled", reason |-> reason]
Updates == Transient \cup {Claimed} \cup {Canceled(r) : r \in Reasons}
\* What update_stream holds once next() has returned None.
StreamNone == [state |-> "None", reason |-> ""]

\* ----------------------------------------------------------------- results

\* The messages of the errors the code builds.
MsgNoGateway == "No LN gateway available"
MsgNoOperation == "No operation found for payment hash, was the invoice issued by us?"
MsgNotLn == "Operation associated with payment hash is not an LN operation"
MsgNotReceive == "Operation associated with the payment hash is not an incoming payment"
MsgSubscribe == "Unexpected error subscribing to operation"
MsgCanceled == "Payment was canceled: "
MsgStreamEnded == "Stream ended unexpectedly"
\* Errors the code passes through with `?`.
MsgBackend == "backend error"
MsgDescription == "description too long"

\* What a call has produced: nothing yet, Ok(..), Err(anyhow::Error) or a panic.
\* An anyhow error is its message; format!("..{}", reason) is the text and the
\* argument it is built from.
NoResult == [tag |-> "None", msg |-> "", arg |-> ""]
Ok == [tag |-> "Ok", msg |-> "", arg |-> ""]
Err(msg) == [tag |-> "Err", msg |-> msg, arg |-> ""]
ErrFmt(msg, arg) == [tag |-> "Err", msg |-> msg, arg |-> arg]
Panic(msg) == [tag |-> "Panic", msg |-> msg, arg |-> ""]

NoHash == <<>>
\* A Bolt11Invoice, by the one field this program reads: invoice.payment_hash().
NoInvoice == [payment_hash |-> NoHash]

\* A bit of the client secret's entropy (Vec<u8>, shortened to three bits).
Bits == {0, 1}
Entropies == Bits \X Bits \X Bits

\* No client secret in the database: load_decodable_client_secret_opt gives None.
NoSecret == <<>>

\* No root secret loaded or generated yet.
NoRootSecret == [strategy |-> "none", mnemonic |-> <<>>]

\* ------------------------------------------------------------------- state

VARIABLES
    store,          \* the client's operation log: operation id -> record
    pc,             \* each task's position in lightning_invoice / await_payment_by_hash
    amount_msats,   \* lightning_invoice's arguments
    description,
    ln_gateway,     \* the gateway get_gateway returned
    invoice,        \* the invoice lightning_invoice returned
    payment_hash,   \* await_payment_by_hash's argument
    operation_id,   \* its local operation_id
    operation,      \* the record get_operation returned
    update_stream,  \* what next() has returned to the task so far, in order
    trace,          \* the calls the task has made in its current call, with their answers
    result,         \* what the task's current call returned
    mainPc,         \* main's position
    motor_pin,      \* the level of the motor's GPIO pin
    led_pin,        \* the level of the backlight's GPIO pin
    screen,         \* what the display shows
    generated,      \* how many invoice strings generate_invoice_string has made
    linesRead,      \* how many input lines main has read
    dispensed,      \* how many times dispense_candy has run the motor
    buildPc,        \* FedimintBuilder::build's position
    builds,         \* how many times build has been called
    dbSecret,       \* the client secret stored in the database, or NoSecret
    root_secret,    \* build's local root_secret
    buildLog,       \* the secrets generated and the clients opened or joined, in order
    buildResult     \* what the last build returned

walletVars == <<store, pc, amount_msats, description, ln_gateway, invoice, payment_hash,
                operation_id, operation, update_stream, trace, result>>
mainVars == <<mainPc, motor_pin, led_pin, screen, generated, linesRead, dispensed>>
buildVars == <<buildPc, builds, dbSecret, root_secret, buildLog, buildResult>>
vars == <<walletVars, mainVars, buildVars>>

issueVars == <<amount_msats, description, ln_gateway, invoice>>
awaitVars == <<payment_hash, operation_id, operation, update_stream>>

\* ------------------------------------------------------------ pure helpers

\* The checksum bits a mnemonic carries after its entropy (bip39).
Checksum(entropy) == (entropy[1] + entropy[2] + entropy[3]) % 2

\* Mnemonic::from_entropy(&entropy): the words index the entropy and its
\* checksum, two bits a word.
FromEntropy(entropy) ==
    <<2 * entropy[1] + entropy[2], 2 * entropy[3] + Checksum(entropy)>>

\* mnemonic.to_entropy(): the words' bits without the checksum.
ToEntropy(mnemonic) ==
    <<mnemonic[1] \div 2, mnemonic[1] % 2, mnemonic[2] \div 2>>

\* What Mnemonic::generate(12) can return: words with a right checksum.
Mnemonics == {FromEntropy(entropy) : entropy \in Entropies}

\* RootSecret::StandardDoubleDerive(Bip39RootSecretStrategy::<12>::to_root_secret(&mnemonic))
ToRootSecret(mnemonic) == [strategy |-> "StandardDoubleDerive", mnemonic |-> mnemonic]

\* A byte-order slip: the hash's bytes copied back to front.
OperationIdReversed(hash) == [i \in 1..Len(hash) |-> hash[Len(hash) + 1 - i]]

\* OperationId(*payment_hash.as_ref()): the hash's bytes, copied in order.
OperationId(hash) == [i \in 1..Len(hash) |-> hash[i]]

\* The id under which the backend's create_bolt11_invoice logs the receive
\* operation of an invoice: the invoice's payment hash.
BackendOperationId(hash) == hash

\* Description::new accepts a description or rejects it as too long.
DescriptionValid(d) == d # "too long"

\* The lookup's result taken as found whatever it is.
FoundAlways(op) == TRUE

\* get_operation(..).await.context(..)?: Some(operation) passes, None fails.
Found(op) == op # NoOperation

\* The kind check left out.
KindOkAlways(op) == TRUE

\* operation.operation_module_kind() == "ln"
KindOk(op) == op.kind = "ln"

\* The variant check left out.
IsReceiveAlways(op) == TRUE

\* A variant check that also lets the Claim variant through.
IsReceiveOrClaim(op) == op.variant \in {"Receive", "Claim"}

\* matches!(operation_meta.variant, LightningOperationMetaVariant::Receive { .. })
IsReceive(op) == op.variant = "Receive"

\* A match whose Claimed arm does not return.
MatchUpdateSkipsClaimed(update) ==
    IF update.state = "Canceled"
      THEN ErrFmt(MsgCanceled, update.reason)
      ELSE NoResult

\* A match whose `_` arm returns Ok(()) instead of going on.
MatchUpdateReturnsOnTransient(update) ==
    IF update.state = "Canceled"
      THEN ErrFmt(MsgCanceled, update.reason)
      ELSE Ok

\* The body of the loop: `match update { Canceled { reason } => return Err(..),
\* Claimed => return Ok(()), _ => {} }`. NoResult: the loop goes on.
MatchUpdate(update) ==
    IF update.state = "Canceled"
      THEN ErrFmt(MsgCanceled, update.reason)
      ELSE IF update.state = "Claimed"
             THEN Ok
             ELSE NoResult

IsTerminal(u) == u.state \in {"Claimed", "Canceled"}

Stored(s) == {k \in DOMAIN s : s[k] # NoOperation}

\* -------------------------------------------------------------------- Init

Init ==
    /\ store \in {s \in [Hashes -> Operations \cup {NoOperation}] :
                    Cardinality(Stored(s)) <= MaxStored}
    /\ pc = [t \in Tasks |-> "idle"]
    /\ amount_msats = [t \in Tasks |-> 0]
    /\ description = [t \in Tasks |-> ""]
    /\ ln_gateway = [t \in Tasks |-> ""]
    /\ invoice = [t \in Tasks |-> NoInvoice]
    /\ payment_hash = [t \in Tasks |-> NoHash]
    /\ operation_id = [t \in Tasks |-> NoHash]
    /\ operation = [t \in Tasks |-> NoOperation]
    /\ update_stream = [t \in Tasks |-> <<>>]
    /\ trace = [t \in Tasks |-> <<>>]
    /\ result = [t \in Tasks |-> NoResult]
    /\ mainPc = "init_display"
    /\ motor_pin = "unconfigured"
    /\ led_pin = "unconfigured"
    /\ screen = "off"
    /\ generated = 0
    /\ linesRead = 0
    /\ dispensed = 0
    /\ buildPc = "idle"
    /\ builds = 0
    /\ dbSecret = NoSecret
    /\ root_secret = NoRootSecret
    /\ buildLog = <<>>
    /\ buildResult = NoResult

\* lightning_invoice's locals, dropped when it returns.
DropIssueLocals(t) ==
    /\ amount_msats' = [amount_msats EXCEPT ![t] = 0]
    /\ description' = [description EXCEPT ![t] = ""]
    /\ ln_gateway' = [ln_gateway EXCEPT ![t] = ""]

\* A call returns (or panics): the task is done with `r`.
Return(t, r) ==
    /\ pc' = [pc EXCEPT ![t] = "done"]
    /\ result' = [result EXCEPT ![t] = r]

Goto(t, label) ==
    /\ pc' = [pc EXCEPT ![t] = label]
    /\ UNCHANGED result

\* The task calls `name` and gets `ret`.
Called(t, name, ret) ==
    trace' = [trace EXCEPT ![t] = Append(@, [call |-> name, ret |-> ret])]

Calls(t) == {trace[t][i].call : i \in 1..Len(trace[t])}

\* ------------------------------------------------------- lightning_invoice

\* A caller enters lightning_invoice(amount_msats, description).
LightningInvoice(t) ==
    /\ pc[t] = "idle"
    /\ \E a \in Amounts, d \in Descriptions :
        /\ amount_msats' = [amount_msats EXCEPT ![t] = a]
        /\ description' = [description EXCEPT ![t] = d]
    /\ Goto(t, "get_gateway")
    /\ UNCHANGED <<store, ln_gateway, invoice, awaitVars, trace>>
    /\ UNCHANGED <<mainVars, buildVars>>

\* get_gateway's None handed on to create_bolt11_invoice instead of failing.
GetGatewayUnchecked(t) ==
    /\ pc[t] = "get_gateway"
    /\ \/ /\ Called(t, "get_gateway", "Err")
          /\ Return(t, Err(MsgBackend))
          /\ DropIssueLocals(t)
       \/ /\ Called(t, "get_gateway", "None")
          /\ ln_gateway' = [ln_gateway EXCEPT ![t] = "none"]
          /\ Goto(t, "create_invoice")
          /\ UNCHANGED <<amount_msats, description>>
       \/ \E g \in Gateways :
            /\ Called(t, "get_gateway", "Some")
            /\ ln_gateway' = [ln_gateway EXCEPT ![t] = g]
            /\ Goto(t, "create_invoice")
            /\ UNCHANGED <<amount_msats, description>>
    /\ UNCHANGED <<store, invoice, awaitVars>>
    /\ UNCHANGED <<mainVars, buildVars>>

\* A failed get_gateway tried once more before the error is returned.
GetGatewayRetries(t) ==
    /\ pc[t] = "get_gateway"
    /\ \/ /\ Called(t, "get_gateway", "Err")
          /\ IF Len(trace[t]) = 0
               THEN /\ Goto(t, "get_gateway")
                    /\ UNCHANGED <<amount_msats, description, ln_gateway>>
               ELSE /\ Return(t, Err(MsgBackend))
                    /\ DropIssueLocals(t)
       \/ /\ Called(t, "get_gateway", "None")
          /\ Return(t, Err(MsgNoGateway))
          /\ DropIssueLocals(t)
       \/ \E g \in Gateways :
            /\ Called(t, "get_gateway", "Some")
            /\ ln_gateway' = [ln_gateway EXCEPT ![t] = g]
            /\ Goto(t, "create_invoice")
            /\ UNCHANGED <<amount_msats, description>>
    /\ UNCHANGED <<store, invoice, awaitVars>>
    /\ UNCHANGED <<mainVars, buildVars>>

\* ln_client.get_gateway(None, false).await?.ok_or_else(..)?: the backend
\* fails, reports no gateway, or returns one.
GetGateway(t) ==
    /\ pc[t] = "get_gateway"
    /\ \/ /\ Called(t, "get_gateway", "Err")
          /\ Return(t, Err(MsgBackend))
          /\ DropIssueLocals(t)
       \/ /\ Called(t, "get_gateway", "None")
          /\ Return(t, Err(MsgNoGateway))
          /\ DropIssueLocals(t)
       \/ \E g \in Gateways :
            /\ Called(t, "get_gateway", "Some")
            /\ ln_gateway' = [ln_gateway EXCEPT ![t] = g]
            /\ Goto(t, "create_invoice")
            /\ UNCHANGED <<amount_msats, description>>
    /\ UNCHANGED <<store, invoice, awaitVars>>
    /\ UNCHANGED <<mainVars, buildVars>>

\* The description checked only after create_bolt11_invoice has been called:
\* the backend has logged the operation when the description is rejected.
CreateInvoiceValidatesLate(t) ==
    /\ pc[t] = "create_invoice"
    /\ \/ /\ Called(t, "create_bolt11_invoice", "Err")
          /\ Return(t, Err(MsgBackend))
          /\ UNCHANGED <<store, invoice>>
       \/ \E h \in Hashes :
            /\ store[BackendOperationId(h)] = NoOperation
            /\ Called(t, "create_bolt11_invoice", "Ok")
            /\ store' = [store EXCEPT ![BackendOperationId(h)] =
                             [kind |-> "ln", variant |-> "Receive"]]
            /\ IF DescriptionValid(description[t])
                 THEN /\ invoice' = [invoice EXCEPT ![t] = [payment_hash |-> h]]
                      /\ pc' = [pc EXCEPT ![t] = "issued"]
                      /\ result' = [result EXCEPT ![t] = Ok]
                 ELSE /\ Return(t, Err(MsgDescription))
                      /\ UNCHANGED invoice
    /\ DropIssueLocals(t)
    /\ UNCHANGED awaitVars
    /\ UNCHANGED <<mainVars, buildVars>>

\* Description::new(description.into())? and then
\* ln_client.create_bolt11_invoice(.., Some(ln_gateway)).await?; Ok(invoice).
\* The backend fails, or makes an invoice with a payment hash not yet in use
\* and logs its receive operation.
CreateInvoice(t) ==
    /\ pc[t] = "create_invoice"
    /\ \/ /\ ~DescriptionValid(description[t])
          /\ Return(t, Err(MsgDescription))
          /\ UNCHANGED <<store, invoice, trace>>
       \/ /\ DescriptionValid(description[t])
          /\ \/ /\ Called(t, "create_bolt11_invoice", "Err")
                /\ Return(t, Err(MsgBackend))
                /\ UNCHANGED <<store, invoice>>
             \/ \E h \in Hashes :
                  /\ store[BackendOperationId(h)] = NoOperation
                  /\ Called(t, "create_bolt11_invoice", "Ok")
                  /\ store' = [store EXCEPT ![BackendOperationId(h)] =
                                   [kind |-> "ln", variant |-> "Receive"]]
                  /\ invoice' = [invoice EXCEPT ![t] =
                                   [payment_hash |-> h]]
                  /\ pc' = [pc EXCEPT ![t] = "issued"]
                  /\ result' = [result EXCEPT ![t] = Ok]
    /\ DropIssueLocals(t)
    /\ UNCHANGED awaitVars
    /\ UNCHANGED <<mainVars, buildVars>>

\* ---------------------------------------------------- await_payment_by_hash

\* The first statement of await_payment_by_hash(payment_hash).
Enter(t, hash) ==
    /\ payment_hash' = [payment_hash EXCEPT ![t] = hash]
    /\ operation_id' = [operation_id EXCEPT ![t] = OperationId(hash)]
    /\ trace' = [trace EXCEPT ![t] = <<>>]
    /\ pc' = [pc EXCEPT ![t] = "get_operation"]
    /\ result' = [result EXCEPT ![t] = NoResult]
    /\ UNCHANGED <<store, issueVars, operation, update_stream>>
    /\ UNCHANGED <<mainVars, buildVars>>

\* await_payment(invoice): the caller passes the invoice it was issued.
AwaitPayment(t) ==
    /\ pc[t] = "issued"
    /\ Enter(t, invoice[t].payment_hash)

\* await_payment_by_hash(payment_hash) with a hash of the caller's choice.
AwaitPaymentByHash(t) ==
    /\ pc[t] = "idle"
    /\ \E h \in Hashes : Enter(t, h)

\* operation_log().get_operation(operation_id).await.context(..)?
GetOperation(t) ==
    /\ pc[t] = "get_operation"
    /\ Called(t, "get_operation",
              IF store[operation_id[t]] = NoOperation THEN "None" ELSE "Some")
    /\ operation' = [operation EXCEPT ![t] = store[operation_id[t]]]
    /\ IF Found(store[operation_id[t]])
         THEN Goto(t, "ensure_kind")
         ELSE Return(t, Err(MsgNoOperation))
    /\ UNCHANGED <<store, issueVars, payment_hash, operation_id, update_stream>>
    /\ UNCHANGED <<mainVars, buildVars>>

\* ensure!(operation.operation_module_kind() == "ln", ..)
EnsureKind(t) ==
    /\ pc[t] = "ensure_kind"
    /\ Called(t, "operation_module_kind", operation[t].kind)
    /\ IF KindOk(operation[t])
         THEN Goto(t, "ensure_variant")
         ELSE Return(t, Err(MsgNotLn))
    /\ UNCHANGED <<store, issueVars, awaitVars>>
    /\ UNCHANGED <<mainVars, buildVars>>

\* operation.meta::<LightningOperationMeta>() and
\* ensure!(matches!(operation_meta.variant, Receive { .. }), ..)
EnsureVariant(t) ==
    /\ pc[t] = "ensure_variant"
    /\ Called(t, "meta", operation[t].variant)
    /\ IF IsReceive(operation[t])
         THEN Goto(t, "subscribe")
         ELSE Return(t, Err(MsgNotReceive))
    /\ UNCHANGED <<store, issueVars, awaitVars>>
    /\ UNCHANGED <<mainVars, buildVars>>

\* ln_module.subscribe_ln_receive(operation_id).await.context(..)?.into_stream():
\* the backend fails or opens a stream of updates.
Subscribe(t) ==
    /\ pc[t] = "subscribe"
    /\ \/ /\ Called(t, "subscribe_ln_receive", "Err")
          /\ Return(t, Err(MsgSubscribe))
       \/ /\ Called(t, "subscribe_ln_receive", "Ok")
          /\ Goto(t, "next_update")
    /\ UNCHANGED <<store, issueVars, awaitVars>>
    /\ UNCHANGED <<mainVars, buildVars>>

\* One subscription shared by the callers: what one task's update decides is
\* returned to every task waiting on a stream.
NextUpdateShared(t) ==
    /\ pc[t] = "next_update"
    /\ Len(update_stream[t]) < MaxStreamLen
    /\ \E update \in Updates :
        /\ update_stream' = [update_stream EXCEPT ![t] = Append(@, update)]
        /\ IF MatchUpdate(update) = NoResult
             THEN Goto(t, "next_update")
             ELSE /\ pc' = [u \in Tasks |->
                              IF pc[u] = "next_update" THEN "done" ELSE pc[u]]
                  /\ result' = [u \in Tasks |->
                              IF pc[u] = "next_update" THEN MatchUpdate(update)
                                                       ELSE result[u]]
    /\ UNCHANGED <<store, issueVars, payment_hash, operation_id, operation, trace>>
    /\ UNCHANGED <<mainVars, buildVars>>

\* A watch with a timeout: the call may give up without an update.
NextUpdateWithTimeout(t) ==
    /\ pc[t] = "next_update"
    /\ \/ /\ Len(update_stream[t]) < MaxStreamLen
          /\ \E update \in Updates :
              /\ update_stream' = [update_stream EXCEPT ![t] = Append(@, update)]
              /\ IF MatchUpdate(update) = NoResult
                   THEN Goto(t, "next_update")
                   ELSE Return(t, MatchUpdate(update))
       \/ /\ Return(t, Err("timed out"))
          /\ UNCHANGED update_stream
    /\ UNCHANGED <<store, issueVars, payment_hash, operation_id, operation, trace>>
    /\ UNCHANGED <<mainVars, buildVars>>

\* One turn of `while let Some(update) = update_stream.next().await`
\* in which the stream yields Some(update).
NextUpdate(t) ==
    /\ pc[t] = "next_update"
    /\ Len(update_stream[t]) < MaxStreamLen
    /\ \E update \in Updates :
        /\ update_stream' = [update_stream EXCEPT ![t] = Append(@, update)]
        /\ IF MatchUpdate(update) = NoResult
             THEN Goto(t, "next_update")
             ELSE Return(t, MatchUpdate(update))
    /\ UNCHANGED <<store, issueVars, payment_hash, operation_id, operation, trace>>
    /\ UNCHANGED <<mainVars, buildVars>>

\* The stream yields None: the loop ends and
\* unreachable!("Stream ended unexpectedly") panics.
StreamEnd(t) ==
    /\ pc[t] = "next_update"
    /\ update_stream' = [update_stream EXCEPT ![t] = Append(@, StreamNone)]
    /\ Return(t, Panic(MsgStreamEnded))
    /\ UNCHANGED <<store, issueVars, payment_hash, operation_id, operation, trace>>
    /\ UNCHANGED <<mainVars, buildVars>>

\* -------------------------------------------------------------------- Next

\* One step of a wallet caller.
Step(t) ==
    \/ LightningInvoice(t)
    \/ GetGateway(t)
    \/ CreateInvoice(t)
    \/ AwaitPayment(t)
    \/ AwaitPaymentByHash(t)
    \/ GetOperation(t)
    \/ EnsureKind(t)
    \/ EnsureVariant(t)
    \/ Subscribe(t)
    \/ NextUpdate(t)
    \/ StreamEnd(t)

\* -------------------------------------------------------------------- main

\* An early `return Err(..)` of main through `?`.
MainFails ==
    /\ mainPc' = "exit_err"

\* Gpio::new()? .. display.set_orientation(..)?: the SPI bus, the display's
\* pins, the backlight and the display's initialisation.
InitDisplay ==
    /\ mainPc = "init_display"
    /\ \/ /\ MainFails                       \* before led_pin.set_high()
          /\ UNCHANGED led_pin
       \/ /\ MainFails                       \* display.init / set_orientation
          /\ led_pin' = "high"
       \/ /\ mainPc' = "init_motor"
          /\ led_pin' = "high"
    /\ UNCHANGED <<motor_pin, screen, generated, linesRead, dispensed>>
    /\ UNCHANGED <<walletVars, buildVars>>

\* gpio.get(MOTOR_PIN)?.into_output(); motor_pin.set_low(); the status bar.
InitMotor ==
    /\ mainPc = "init_motor"
    /\ \/ /\ MainFails
          /\ UNCHANGED motor_pin
       \/ /\ mainPc' = "initial_invoice"
          /\ motor_pin' = "low"
    /\ UNCHANGED <<led_pin, screen, generated, linesRead, dispensed>>
    /\ UNCHANGED <<walletVars, buildVars>>

\* generate_invoice_string() and display_invoice_screen(..)?: the screen is
\* cleared to white, then the QR code of the new string is drawn, unless
\* generate_qr_image fails.
ShowInvoice(next) ==
    /\ generated' = generated + 1
    /\ \/ /\ screen' = "white"
          /\ MainFails
       \/ /\ screen' = "invoice"
          /\ mainPc' = next

\* The initial invoice screen, before the loop.
InitialInvoice ==
    /\ mainPc = "initial_invoice"
    /\ ShowInvoice("read_line")
    /\ UNCHANGED <<motor_pin, led_pin, linesRead, dispensed>>
    /\ UNCHANGED <<walletVars, buildVars>>

\* match lines.next(): a line, a read error, or the end of input.
ReadLine ==
    /\ mainPc = "read_line"
    /\ \/ /\ linesRead < MaxLines
          /\ linesRead' = linesRead + 1
          /\ mainPc' = "payment_success"
       \/ /\ mainPc' = "cleanup"              \* Some(Err(e)) => break
          /\ UNCHANGED linesRead
       \/ /\ mainPc' = "cleanup"              \* None => break
          /\ UNCHANGED linesRead
    /\ UNCHANGED <<motor_pin, led_pin, screen, generated, dispensed>>
    /\ UNCHANGED <<walletVars, buildVars>>

\* display_payment_success_screen(..)?: it draws and returns Ok(()).
PaymentSuccessScreen ==
    /\ mainPc = "payment_success"
    /\ screen' = "success"
    /\ mainPc' = "dispense"
    /\ UNCHANGED <<motor_pin, led_pin, generated, linesRead, dispensed>>
    /\ UNCHANGED <<walletVars, buildVars>>

\* dispense_candy: motor_pin.set_high(), then the sleep.
DispenseStart ==
    /\ mainPc = "dispense"
    /\ motor_pin' = "high"
    /\ mainPc' = "dispensing"
    /\ UNCHANGED <<led_pin, screen, generated, linesRead, dispensed>>
    /\ UNCHANGED <<walletVars, buildVars>>

\* dispense_candy returning without motor_pin.set_low().
DispenseEndNoLow ==
    /\ mainPc = "dispensing"
    /\ dispensed' = dispensed + 1
    /\ mainPc' = "new_invoice"
    /\ UNCHANGED <<motor_pin, led_pin, screen, generated, linesRead>>
    /\ UNCHANGED <<walletVars, buildVars>>

\* dispense_candy: after the sleep, motor_pin.set_low(); Ok(()).
DispenseEnd ==
    /\ mainPc = "dispensing"
    /\ motor_pin' = "low"
    /\ dispensed' = dispensed + 1
    /\ mainPc' = "new_invoice"
    /\ UNCHANGED <<led_pin, screen, generated, linesRead>>
    /\ UNCHANGED <<walletVars, buildVars>>

\* The loop going back to lines.next() with the success screen still shown.
NewInvoiceSkipped ==
    /\ mainPc = "new_invoice"
    /\ mainPc' = "read_line"
    /\ UNCHANGED <<motor_pin, led_pin, screen, generated, linesRead, dispensed>>
    /\ UNCHANGED <<walletVars, buildVars>>

\* The Ok(_) arm: the 3 s sleep, then the invoice screen for the next purchase.
NewInvoice ==
    /\ mainPc = "new_invoice"
    /\ ShowInvoice("read_line")
    /\ UNCHANGED <<motor_pin, led_pin, linesRead, dispensed>>
    /\ UNCHANGED <<walletVars, buildVars>>

\* After the loop: motor low, backlight low, display cleared; Ok(()).
Cleanup ==
    /\ mainPc = "cleanup"
    /\ motor_pin' = "low"
    /\ led_pin' = "low"
    /\ screen' = "black"
    /\ mainPc' = "exit_ok"
    /\ UNCHANGED <<generated, linesRead, dispensed>>
    /\ UNCHANGED <<walletVars, buildVars>>

MainStep ==
    \/ InitDisplay
    \/ InitMotor
    \/ InitialInvoice
    \/ ReadLine
    \/ PaymentSuccessScreen
    \/ DispenseStart
    \/ DispenseEnd
    \/ NewInvoice
    \/ Cleanup

\* ------------------------------------------------- FedimintBuilder::build

\* build returns `r`; its locals are dropped.
BuildReturn(r) ==
    /\ buildPc' = "done"
    /\ buildResult' = r
    /\ root_secret' = NoRootSecret

\* A call the build made with a root secret, or the secret it generated.
Logged(call, entropy) ==
    buildLog' = Append(buildLog, [build |-> builds, call |-> call,
                                  entropy |-> entropy, secret |-> root_secret'])

\* A caller calls build(); builds on one database follow one another.
Build ==
    /\ buildPc \in {"idle", "done"}
    /\ builds < MaxBuilds
    /\ builds' = builds + 1
    /\ buildPc' = "builder"
    /\ buildResult' = NoResult
    /\ UNCHANGED <<dbSecret, root_secret, buildLog>>
    /\ UNCHANGED <<walletVars, mainVars>>

\* fedimint_client::Client::builder().await? and the builder's settings.
ClientBuilder ==
    /\ buildPc = "builder"
    /\ \/ /\ BuildReturn(Err(MsgBackend))
       \/ /\ buildPc' = "open_db"
          /\ UNCHANGED <<root_secret, buildResult>>
    /\ UNCHANGED <<builds, dbSecret, buildLog>>
    /\ UNCHANGED <<walletVars, mainVars>>

\* fedimint_rocksdb::RocksDb::open(self.datadir).await?.into_database()
OpenDb ==
    /\ buildPc = "open_db"
    /\ \/ /\ BuildReturn(Err(MsgBackend))
       \/ /\ buildPc' = "try_load"
          /\ UNCHANGED <<root_secret, buildResult>>
    /\ UNCHANGED <<builds, dbSecret, buildLog>>
    /\ UNCHANGED <<walletVars, mainVars>>

\* try_load_root_secret that reports no stored secret whatever the database
\* holds.
TryLoadFindsNothing ==
    /\ buildPc = "try_load"
    /\ \/ /\ BuildReturn(Err(MsgBackend))
       \/ /\ buildPc' = "generate"
          /\ UNCHANGED <<root_secret, buildResult>>
    /\ UNCHANGED <<builds, dbSecret, buildLog>>
    /\ UNCHANGED <<walletVars, mainVars>>

\* try_load_root_secret(&db).await?: the load fails, nothing is stored
\* (Ok(None), the else branch), or the stored entropy gives the root secret.
TryLoadRootSecret ==
    /\ buildPc = "try_load"
    /\ \/ /\ BuildReturn(Err(MsgBackend))
       \/ /\ dbSecret = NoSecret
          /\ buildPc' = "generate"
          /\ UNCHANGED <<root_secret, buildResult>>
       \/ /\ dbSecret # NoSecret
          /\ IF dbSecret \in Entropies
               THEN /\ root_secret' = ToRootSecret(FromEntropy(dbSecret))
                    /\ buildPc' = "open"
                    /\ UNCHANGED buildResult
               ELSE BuildReturn(Err(MsgBackend))
    /\ UNCHANGED <<builds, dbSecret, buildLog>>
    /\ UNCHANGED <<walletVars, mainVars>>

\* client_builder.open(db, root_secret).await?
OpenClient ==
    /\ buildPc = "open"
    /\ buildLog' = Append(buildLog, [build |-> builds, call |-> "open",
                                     entropy |-> dbSecret, secret |-> root_secret])
    /\ \/ BuildReturn(Err(MsgBackend))
       \/ BuildReturn(Ok)
    /\ UNCHANGED <<builds, dbSecret>>
    /\ UNCHANGED <<walletVars, mainVars>>

\* generate_root_secret(&db).await?: a new mnemonic, its entropy stored.
GenerateRootSecret ==
    /\ buildPc = "generate"
    /\ \/ /\ BuildReturn(Err(MsgBackend))    \* Mnemonic::generate(12)? or the store fails
          /\ UNCHANGED <<dbSecret, buildLog>>
       \/ \E mnemonic \in Mnemonics :
            /\ dbSecret' = ToEntropy(mnemonic)
            /\ root_secret' = ToRootSecret(mnemonic)
            /\ Logged("generate_root_secret", ToEntropy(mnemonic))
            /\ buildPc' = "preview"
            /\ UNCHANGED buildResult
    /\ UNCHANGED builds
    /\ UNCHANGED <<walletVars, mainVars>>

\* client_builder.preview(&self.federation).await?
Preview ==
    /\ buildPc = "preview"
    /\ \/ /\ BuildReturn(Err(MsgBackend))
       \/ /\ buildPc' = "join"
          /\ UNCHANGED <<root_secret, buildResult>>
    /\ UNCHANGED <<builds, dbSecret, buildLog>>
    /\ UNCHANGED <<walletVars, mainVars>>

\* .join(db, root_secret).await?
Join ==
    /\ buildPc = "join"
    /\ buildLog' = Append(buildLog, [build |-> builds, call |-> "join",
                                     entropy |-> dbSecret, secret |-> root_secret])
    /\ \/ BuildReturn(Err(MsgBackend))
       \/ BuildReturn(Ok)
    /\ UNCHANGED <<builds, dbSecret>>
    /\ UNCHANGED <<walletVars, mainVars>>

\* ---------------------------------------------------------- specifications

\* The wallet and its callers.
Next == \E t \in Tasks : Step(t)

Spec == Init /\ [][Next]_vars

\* The dispenser as built, beside one caller of the wallet: main.rs never
\* calls the wallet.
NextMain == MainStep \/ Step("t1")

SpecMain == Init /\ [][NextMain]_vars

\* Calls of FedimintBuilder::build on one database, one after another.
NextBuild ==
    \/ Build
    \/ ClientBuilder
    \/ OpenDb
    \/ TryLoadRootSecret
    \/ OpenClient
    \/ GenerateRootSecret
    \/ Preview
    \/ Join

SpecBuild == Init /\ [][NextBuild]_vars

\* ------------------------------------------------------------------ claims

LnReceive == [kind |-> "ln", variant |-> "Receive"]

\* The task is in (or back from) await_payment_by_hash and has looked its
\* operation up.
Looked(t) == Len(trace[t]) > 0 /\ trace[t][1].call = "get_operation"

\* The task's stream has yielded None.
StreamEnded(t) ==
    /\ Len(update_stream[t]) > 0
    /\ update_stream[t][Len(update_stream[t])] = StreamNone

\* update_stream[t][i] is the first terminal update of t's stream.
FirstTerminal(t, i) ==
    /\ IsTerminal(update_stream[t][i])
    /\ \A j \in 1..(i - 1) : ~IsTerminal(update_stream[t][j])

\* The Claimed outcomes await_payment_by_hash has returned so far.
ClaimedOutcomes == Cardinality({t \in Tasks : pc[t] = "done" /\ result[t] = Ok})

\* C1: when the stream ends without a terminal update, the call returns an
\* error value (StreamClosedUnexpectedly) to its caller: it does not panic.
C1_StreamEndReturnsError ==
    \A t \in Tasks :
        StreamEnded(t) => pc[t] = "done" /\ result[t].tag = "Err"

\* C2: the motor is run only for a Claimed outcome of the watcher: there are
\* never more dispenses than Claimed outcomes, and the motor is on only when a
\* Claimed outcome has not been dispensed for yet.
C2_DispenseOnlyOnClaimed ==
    /\ dispensed <= ClaimedOutcomes
    /\ motor_pin = "high" => dispensed < ClaimedOutcomes

\* C3: when the first terminal update is Canceled{reason}, the call returns the
\* outcome Canceled(reason), a result of its own kind and not an error.
C3_CanceledIsAnOutcome ==
    \A t \in Tasks : \A i \in 1..Len(update_stream[t]) :
        (FirstTerminal(t, i) /\ update_stream[t][i].state = "Canceled")
            => /\ pc[t] = "done"
               /\ result[t].tag = "Canceled"
               /\ result[t].arg = update_stream[t][i].reason

\* C4: on a stream of non-terminal updates followed by Claimed, the call has
\* returned Ok(()) and has taken nothing from the stream after that Claimed.
C4_ClaimedAfterTransients ==
    \A t \in Tasks : \A i \in 1..Len(update_stream[t]) :
        (FirstTerminal(t, i) /\ update_stream[t][i] = Claimed)
            => /\ i = Len(update_stream[t])
               /\ pc[t] = "done"
               /\ result[t] = Ok

C4_Witness ==
    \E t \in Tasks :
        /\ update_stream[t] = <<[state |-> "WaitingForPayment", reason |-> ""],
                                [state |-> "WaitingForPayment", reason |-> ""],
                                Claimed>>
        /\ pc[t] = "done"

\* C5: subscribe_ln_receive is called only after the lookup, the kind check and
\* the variant check, in that order, and only for an id whose operation exists,
\* is of kind "ln" and is a Receive.
C5_SubscribeAfterValidation ==
    \A t \in Tasks :
        "subscribe_ln_receive" \in Calls(t)
            => /\ Len(trace[t]) = 4
               /\ trace[t][1] = [call |-> "get_operation", ret |-> "Some"]
               /\ trace[t][2] = [call |-> "operation_module_kind", ret |-> "ln"]
               /\ trace[t][3] = [call |-> "meta", ret |-> "Receive"]
               /\ trace[t][4].call = "subscribe_ln_receive"
               /\ store[operation_id[t]] = LnReceive

C5_Witness ==
    \E t \in Tasks : pc[t] = "next_update" /\ "subscribe_ln_receive" \in Calls(t)

\* C6: when the log holds no record for the key, the call fails with the
\* "No operation found" error, whatever else the log holds.
C6_UnknownOperation ==
    \A t \in Tasks :
        (Looked(t) /\ trace[t][1].ret = "None")
            => pc[t] = "done" /\ result[t] = Err(MsgNoOperation)

C6_Witness ==
    \E t \in Tasks :
        /\ Looked(t) /\ trace[t][1].ret = "None"
        /\ pc[t] = "done"
        /\ Stored(store) # {}

\* C7: when the record's kind is not "ln", the call fails with the "not an LN
\* operation" error, whatever the record's variant.
C7_WrongOperationKind ==
    \A t \in Tasks :
        (Looked(t) /\ operation[t] # NoOperation /\ operation[t].kind # "ln"
                   /\ pc[t] # "ensure_kind")
            => pc[t] = "done" /\ result[t] = Err(MsgNotLn)

C7_Witness ==
    \E t \in Tasks :
        /\ Looked(t) /\ pc[t] = "done"
        /\ operation[t] = [kind |-> "mint", variant |-> "Pay"]

\* C8: when the record's kind is "ln" and its variant is not Receive, the call
\* fails with the "not an incoming payment" error.
C8_WrongOperationVariant ==
    \A t \in Tasks :
        (Looked(t) /\ operation[t].kind = "ln" /\ operation[t].variant # "Receive"
                   /\ pc[t] \notin {"ensure_kind", "ensure_variant"})
            => pc[t] = "done" /\ result[t] = Err(MsgNotReceive)

C8_Witness ==
    \E t \in Tasks :
        /\ Looked(t) /\ pc[t] = "done"
        /\ operation[t] = [kind |-> "ln", variant |-> "Pay"]

\* C9: after lightning_invoice has returned an invoice, await_payment on that
\* invoice finds the operation, of kind "ln" and variant Receive, and fails with
\* none of the three validation errors.
C9_IssueThenResolve ==
    \A t \in Tasks :
        (invoice[t] # NoInvoice /\ pc[t] \notin {"issued", "get_operation"})
            => /\ payment_hash[t] = invoice[t].payment_hash
               /\ operation[t] = LnReceive
               /\ pc[t] \in {"ensure_kind", "ensure_variant", "subscribe",
                             "next_update", "done"}
               /\ result[t].msg \notin {MsgNoOperation, MsgNotLn, MsgNotReceive}
               /\ pc[t] = "done" => "subscribe_ln_receive" \in Calls(t)

C9_Witness ==
    \E t \in Tasks : invoice[t] # NoInvoice /\ pc[t] = "subscribe"

\* C10: when get_gateway reports no gateway, lightning_invoice fails with the
\* "No LN gateway available" error, create_bolt11_invoice is not called and no
\* invoice is returned.
C10_NoGateway ==
    \A t \in Tasks :
        (Len(trace[t]) > 0 /\ trace[t][1] = [call |-> "get_gateway", ret |-> "None"])
            => /\ pc[t] = "done"
               /\ result[t] = Err(MsgNoGateway)
               /\ Calls(t) = {"get_gateway"}
               /\ invoice[t] = NoInvoice

C10_Witness ==
    \E t \in Tasks :
        /\ Len(trace[t]) > 0
        /\ trace[t][1] = [call |-> "get_gateway", ret |-> "None"]
        /\ pc[t] = "done"

\* The task's subscribe_ln_receive call has returned a stream.
Subscribed(t) ==
    \E i \in 1..Len(trace[t]) :
        trace[t][i] = [call |-> "subscribe_ln_receive", ret |-> "Ok"]

\* The places of a stream at which a call that runs alone on it returns: the
\* first item that is not a transient update.
Deciding(s) == {i \in 1..Len(s) : s[i] \notin Transient
                                  /\ \A j \in 1..(i - 1) : s[j] \in Transient}

\* What a call that runs alone on the stream `s` has returned.
AloneOutcome(s) ==
    IF Deciding(s) = {}
      THEN NoResult
      ELSE LET u == s[CHOOSE i \in Deciding(s) : TRUE]
           IN  IF u.state = "Claimed" THEN Ok
               ELSE IF u.state = "Canceled" THEN ErrFmt(MsgCanceled, u.reason)
               ELSE Panic(MsgStreamEnded)

\* C11: calls that run at the same time do not interfere: under every
\* interleaving each call's result is the one its own stream decides, and a
\* call whose own stream has decided nothing has not returned.
C11_NoInterference ==
    \A t \in Tasks :
        Subscribed(t)
            => /\ result[t] = AloneOutcome(update_stream[t])
               /\ (pc[t] = "done") <=> (Deciding(update_stream[t]) # {})

C11_Witness ==
    \E t, u \in Tasks :
        /\ t # u
        /\ Subscribed(t) /\ Subscribed(u)
        /\ operation_id[t] # operation_id[u]
        /\ result[t] = Ok
        /\ result[u] = ErrFmt(MsgCanceled, "expired")

\* C12: the first terminal update decides: transient updates neither return
\* nor change the result, nothing is taken from the stream after a terminal
\* update, and the result is the one of that update (Ok(()) for Claimed, the
\* cancellation with its reason for Canceled).
C12_FirstTerminalDecides ==
    \A t \in Tasks :
        Subscribed(t) /\ ~StreamEnded(t)
            => /\ \A i \in 1..(Len(update_stream[t]) - 1) :
                    update_stream[t][i] \in Transient
               /\ (\A i \in 1..Len(update_stream[t]) : update_stream[t][i] \in Transient)
                    => pc[t] = "next_update" /\ result[t] = NoResult
               /\ \A i \in 1..Len(update_stream[t]) :
                    FirstTerminal(t, i)
                      => /\ pc[t] = "done"
                         /\ update_stream[t][i] = Claimed => result[t] = Ok
                         /\ update_stream[t][i].state = "Canceled"
                              => /\ result[t].tag # "Ok"
                                 /\ result[t].msg = MsgCanceled
                                 /\ result[t].arg = update_stream[t][i].reason

C12_Witness ==
    \E t \in Tasks :
        /\ update_stream[t] = <<[state |-> "WaitingForPayment", reason |-> ""],
                                Canceled("refunded")>>
        /\ pc[t] = "done"

\* The last call the task has made.
LastCall(tr) == tr[Len(tr)]

Failure(e) ==
    \/ e.ret \in {"Err", "None"}
    \/ e.call = "operation_module_kind" /\ e.ret # "ln"
    \/ e.call = "meta" /\ e.ret # "Receive"

\* C14: nothing is retried: within one call of lightning_invoice or
\* await_payment_by_hash no backend call is made twice, and a failed call is
\* the last one, with its error returned to the caller.
C14_NoRetry ==
    \A t \in Tasks :
        /\ \A i, j \in 1..Len(trace[t]) :
              i # j => trace[t][i].call # trace[t][j].call
        /\ \A i \in 1..Len(trace[t]) :
              Failure(trace[t][i])
                => /\ i = Len(trace[t])
                   /\ pc[t] = "done"
                   /\ result[t].tag = "Err"

C14_Witness ==
    \E t \in Tasks :
        /\ pc[t] = "done"
        /\ trace[t] = <<[call |-> "get_gateway", ret |-> "Some"],
                        [call |-> "create_bolt11_invoice", ret |-> "Err"]>>

\* C15: no timeout and no cancellation: a call that waits on its stream
\* leaves the loop only in a step that takes from the stream a terminal
\* update or the end of the stream.
C15_ReturnsOnlyOnTerminalOrEnd ==
    [][\A t \in Tasks :
         (pc[t] = "next_update" /\ pc'[t] # "next_update")
            => /\ pc'[t] = "done"
               /\ Len(update_stream'[t]) = Len(update_stream[t]) + 1
               /\ update_stream'[t][Len(update_stream'[t])] \notin Transient]_vars

C15_Witness ==
    \E t \in Tasks :
        /\ pc[t] = "next_update"
        /\ result[t] = NoResult
        /\ update_stream[t] = <<[state |-> "WaitingForPayment", reason |-> ""],
                                [state |-> "WaitingForPayment", reason |-> ""]>>

\* C16, as stated: the motor pin is low whenever main waits for input and at
\* every exit of main, early returns included, and high only inside
\* dispense_candy.
C16_MotorLowAtEveryExit ==
    /\ mainPc \in {"read_line", "exit_ok", "exit_err"} => motor_pin = "low"
    /\ motor_pin = "high" => mainPc = "dispensing"

\* C16, amended: the motor pin is high only inside dispense_candy; it is low
\* whenever main waits for input, at the exit after the loop and at an early
\* return from display_invoice_screen; an early return before
\* gpio.get(MOTOR_PIN) leaves the pin as main found it, never set by main.
C16_MotorLowOnceConfigured ==
    /\ motor_pin = "high" => mainPc = "dispensing"
    /\ mainPc \in {"read_line", "exit_ok"} => motor_pin = "low"
    /\ mainPc = "exit_err" =>
          IF generated > 0 THEN motor_pin = "low"
                           ELSE motor_pin \in {"low", "unconfigured"}

C16_Witness ==
    /\ mainPc = "exit_err"
    /\ dispensed > 0
    /\ motor_pin = "low"

\* C18: whenever main is about to read a line the invoice screen is shown and
\* it was generated after the last dispense (one invoice string per dispense,
\* and the initial one; every line read has been dispensed); the loop is left
\* only from the read, and after the shutdown steps the motor pin and the
\* backlight are low and the display is cleared.
C18_FreshInvoiceBeforeEachRead ==
    /\ mainPc = "read_line" =>
          /\ screen = "invoice"
          /\ generated = dispensed + 1
          /\ dispensed = linesRead
    /\ mainPc \in {"cleanup", "exit_ok"} =>
          /\ generated = dispensed + 1
          /\ dispensed = linesRead
    /\ mainPc = "exit_ok" =>
          /\ motor_pin = "low"
          /\ led_pin = "low"
          /\ screen = "black"

C18_Witness ==
    /\ mainPc = "exit_ok"
    /\ dispensed > 0
    /\ generated = dispensed + 1

\* The entries of the log in which a secret was generated and stored.
Generations == {i \in 1..Len(buildLog) : buildLog[i].call = "generate_root_secret"}

\* C17: over any sequence of builds on one database a root secret is
\* generated and stored at most once, and only by a build that found none;
\* the database holds that secret's entropy from then on; every open and
\* every join is given the root secret that was generated; a join is made
\* only by the build that generated it, and every later build that reaches
\* the client opens it.
C17_RootSecretGeneratedOnce ==
    /\ Cardinality(Generations) <= 1
    /\ Generations = {} =>
          /\ dbSecret = NoSecret
          /\ buildLog = <<>>
    /\ \A g \in Generations :
          /\ dbSecret = buildLog[g].entropy
          /\ g = 1
          /\ \A i \in 1..Len(buildLog) :
                /\ buildLog[i].secret = buildLog[g].secret
                /\ buildLog[i].entropy = buildLog[g].entropy
                /\ buildLog[i].call = "join" => buildLog[i].build = buildLog[g].build
                /\ buildLog[i].build > buildLog[g].build => buildLog[i].call = "open"
          /\ buildPc \in {"generate", "preview", "join"} => builds = buildLog[g].build
          /\ buildPc \in {"open", "preview", "join"} => root_secret = buildLog[g].secret
          /\ buildPc = "open" => builds > buildLog[g].build

C17_Witness ==
    /\ Len(buildLog) = 3
    /\ buildLog[1].call = "generate_root_secret"
    /\ buildLog[2].call = "open"
    /\ buildLog[3].call = "open"
    /\ buildLog[3].secret = buildLog[1].secret
    /\ buildLog[1].secret.mnemonic = <<1, 2>>
    /\ buildResult = Ok

====
